---- MODULE Spec2Model ----
(***************************************************************************)
(* Agent runner of the Todo chatbot backend (src/src/agent/runner.py,      *)
(* src/src/agent/config.py, src/src/models/message.py).                    *)
(*                                                                         *)
(* Two specifications share the variables:                                 *)
(*   PromptSpec  the history loader and the input builder, on stored       *)
(*               conversations of every size up to MaxStored;              *)
(*   Spec        one turn of run_agent / run_agent_streamed, with the      *)
(*               agent run (Runner.run / Runner.run_streamed), the tool    *)
(*               server and the caller as the environment.                 *)
(* Text is a sequence of tokens, so that concatenation, prefixes and       *)
(* emptiness are what they are for Python strings.                         *)
(***************************************************************************)
EXTENDS Integers, Sequences, FiniteSets, TLC

VARIABLES
    store,                 \* rows of the messages table, in insertion order
    user_id,               \* argument user_id of run_agent / run_agent_streamed
    message,               \* argument message
    conversation_history,  \* argument conversation_history
    mode,                  \* which entry point runs: "run_agent" | "run_agent_streamed"
    api_key,               \* os.getenv("OPENAI_API_KEY") is set
    full_input,            \* local full_input, <<>> before it is built
    pc,                    \* position of the entry point
    mcp_server,            \* local mcp_server of the entry point: None or the server object
    conn,                  \* the MCP connection object made by create_agent
    exc,                   \* exception in flight in the entry point
    result,                \* value returned by run_agent, <<>> if none
    run,                   \* state of the agent run (Runner.run / run_streamed task)
    current_turn,          \* model requests made by the agent run
    response_text,         \* text of the model response being produced
    pending_call,          \* tool call requested by the current response: <<>> or <<call>>
    final_output,          \* result.final_output (<<>> when None or "")
    emitted,               \* events the agent run has put on its event stream
    consumed,              \* how many of them stream_events() has delivered
    yielded,               \* chunks run_agent_streamed has yielded
    deltas,                \* text deltas the model has produced in this turn
    tool_calls,            \* tool invocations received by the tool server, in order
    connect_attempts,      \* times __aenter__() was called on an MCP server object
    discoveries,           \* list-tools requests sent over the connection
    tool_result,           \* what the last tool call gave back to the run: "none" | "ok" | "error"
    model_attempts,        \* failed attempts of the model request not yet answered
    turns,                 \* concurrent turns: locals of each run_agent call
    connections,           \* concurrent turns: every MCP server object created, in order
    in_flight,             \* tool invocations sent to the tool server and not yet answered
    taken,                 \* chunks the caller of run_agent_streamed has received
    close_attempts         \* times __aexit__() was called on the server object of the turn

promptVars == <<store, conversation_history, full_input>>
inputVars  == <<user_id, message, mode, api_key>>
callVars   == <<pc, mcp_server, conn, exc, result>>
runVars    == <<run, current_turn, response_text, pending_call, final_output,
                emitted, consumed, yielded, deltas, tool_calls>>
envVars    == <<connect_attempts, discoveries, tool_result, model_attempts>>
concVars   == <<turns, connections>>
flowVars   == <<in_flight, taken, close_attempts>>
vars == <<promptVars, inputVars, callVars, runVars, envVars, concVars, flowVars, flowVars>>

None == "None"

----------------------------------------------------------------------------
(* Bounds of the model *)

MaxStored == 53        \* stored messages of a conversation store: 0 .. MaxStored
MaxDeltas == 2         \* text deltas the model emits in one turn
MaxFreeCalls == 1      \* tool calls the model chooses freely; later ones repeat the last
MaxAhead == 1          \* events the streamed run is ahead of stream_events()
MaxCallsPerResponse == 2  \* tool calls one model response requests, where responses have several

----------------------------------------------------------------------------
(* src/src/agent/config.py *)

MAX_CONVERSATION_HISTORY == 50

(* load_conversation_history(limit: int = 50) *)
DEFAULT_LIMIT == 50

(* Runner.run / Runner.run_streamed are called without max_turns: the      *)
(* agents library default applies.                                         *)
DEFAULT_MAX_TURNS == 10

(* The iteration cap the specification configures (default 8); the code    *)
(* has no such setting.                                                    *)
ITERATION_CAP == 8

SystemPrompt == <<"You are Aura AI ...", "today">>

Users == {"u1", "u2"}

(* The tag of f"[User ID: {user_id}]\n{message}" *)
IdentityTag(uid) == <<"[User ID: ", uid, "]\n">>

Messages == { <<"hello">>, IdentityTag("u2") \o <<"hello">> }

----------------------------------------------------------------------------
(* src/src/models/message.py *)

MessageRole == [user |-> "user", assistant |-> "assistant"]

(* str.lower() on the role strings *)
Lower(s) ==
    CASE s \in {"user", "USER", "User"} -> "user"
      [] s \in {"assistant", "ASSISTANT", "Assistant"} -> "assistant"
      [] OTHER -> s

(* The k-th row written to the messages table. A row of another           *)
(* conversation is interleaved; row tiePos+1 has the creation time of      *)
(* row tiePos (two rows written within one clock tick).                    *)
ConversationOf(k) == IF k = 3 THEN "c2" ELSE "c1"

CreatedAt(k, tiePos) == IF tiePos > 0 /\ k > tiePos THEN k - 1 ELSE k

Message(k, tiePos) ==
    [ id |-> k,
      conversation_id |-> ConversationOf(k),
      role |-> IF k % 2 = 1 THEN MessageRole.user ELSE MessageRole.assistant,
      content |-> <<"m", ToString(k)>>,
      created_at |-> CreatedAt(k, tiePos) ]

(* The store after n rows were written *)
StoreOf(n, tiePos) == [k \in 1..n |-> Message(k, tiePos)]

(* Where the two rows of equal creation time lie: none (0), among the      *)
(* oldest rows or among the newest.                                        *)
TiePositions(n) == {t \in 0..n-1 : t <= 2 \/ (t >= n - 2 /\ t >= 1)}

----------------------------------------------------------------------------
(* src/src/agent/runner.py: load_conversation_history *)

(* .where(Message.conversation_id == conversation_id) *)
Where(rows, conversation_id) ==
    SelectSeq(rows, LAMBDA m : m.conversation_id = conversation_id)

(* .order_by(Message.created_at.desc()): the database leaves the order of  *)
(* rows with equal created_at open; tieNewestFirst is its choice.          *)
RECURSIVE OrderByCreatedAtDesc(_, _)
OrderByCreatedAtDesc(rowSet, tieNewestFirst) ==
    IF rowSet = {} THEN <<>>
    ELSE LET top == {m \in rowSet : \A o \in rowSet : o.created_at <= m.created_at}
             first == IF tieNewestFirst
                         THEN CHOOSE m \in top : \A o \in top : o.id <= m.id
                         ELSE CHOOSE m \in top : \A o \in top : o.id >= m.id
         IN  <<first>> \o OrderByCreatedAtDesc(rowSet \ {first}, tieNewestFirst)

(* .limit(limit) *)
Limit(rows, limit) == SubSeq(rows, 1, IF Len(rows) < limit THEN Len(rows) ELSE limit)

(* The rows as the query returned them *)
Reversed_NotApplied(rows) == rows

(* list(reversed(messages)) *)
Reversed(rows) == [i \in 1..Len(rows) |-> rows[Len(rows) + 1 - i]]

Range(f) == {f[i] : i \in DOMAIN f}

load_conversation_history(rows, conversation_id, limit, tieNewestFirst) ==
    Reversed(Limit(OrderByCreatedAtDesc(Range(Where(rows, conversation_id)),
                                        tieNewestFirst),
                   limit))

----------------------------------------------------------------------------
(* src/src/agent/config.py: format_conversation_history *)

format_conversation_history(messages) ==
    [i \in 1..Len(messages) |->
        [role |-> Lower(messages[i].role), content |-> messages[i].content]]

(* src/src/agent/runner.py: run_agent lines 143-154, run_agent_streamed    *)
(* lines 217-228                                                           *)
FullMessage_NoTag(uid, msg) == msg

FullMessage(uid, msg) == IdentityTag(uid) \o msg

(* An absent conversation_history (None) and an empty one are both <<>>:   *)
(* `if conversation_history:` treats them alike.                           *)
BuildFullInput(uid, msg, history_arg) ==
    LET history == IF history_arg # <<>>
                      THEN format_conversation_history(history_arg)
                      ELSE <<>>
        new_user_message == [role |-> "user", content |-> FullMessage(uid, msg)]
    IN  history \o <<new_user_message>>

BuildFullInputStreamed(uid, msg, history_arg) ==
    LET history == IF history_arg # <<>>
                      THEN format_conversation_history(history_arg)
                      ELSE <<>>
        new_user_message == [role |-> "user", content |-> FullMessage(uid, msg)]
    IN  history \o <<new_user_message>>

(* What the agent run sends to the model for a request: the agent's        *)
(* instructions as the system message, then the input items.               *)
ModelInput(input) == <<[role |-> "system", content |-> SystemPrompt]>> \o input

----------------------------------------------------------------------------
(* The entry points, up to the built input *)

Modes == {"run_agent", "run_agent_streamed"}

(* full_input = history + [new_user_message] *)
FormatAndBuild ==
    /\ pc = "created"
    /\ full_input' = IF mode = "run_agent"
                        THEN BuildFullInput(user_id, message, conversation_history)
                        ELSE BuildFullInputStreamed(user_id, message, conversation_history)
    /\ pc' = "ready"
    /\ UNCHANGED <<store, conversation_history, inputVars, envVars, concVars, flowVars, mcp_server, conn, exc,
                   result, runVars>>

(* The caller of the entry point loads the history it passes, then calls   *)
(* the entry point.                                                        *)
Limits == {1, 2, DEFAULT_LIMIT, DEFAULT_LIMIT + 1}

CallerLoadsHistory ==
    /\ pc = "caller"
    /\ \E limit \in Limits, tieNewestFirst \in BOOLEAN :
          conversation_history' =
              load_conversation_history(store, "c1", limit, tieNewestFirst)
    /\ pc' = "start"
    /\ UNCHANGED <<store, full_input, inputVars, envVars, concVars, flowVars, mcp_server, conn, exc, result, runVars>>

(* ... or passes every stored message of the conversation, or none. *)
CallerPassesAll ==
    /\ pc = "caller"
    /\ conversation_history' = Where(store, "c1")
    /\ pc' = "start"
    /\ UNCHANGED <<store, full_input, inputVars, envVars, concVars, flowVars, mcp_server, conn, exc, result, runVars>>

CallerPassesNone ==
    /\ pc = "caller"
    /\ conversation_history' = <<>>
    /\ pc' = "start"
    /\ UNCHANGED <<store, full_input, inputVars, envVars, concVars, flowVars, mcp_server, conn, exc, result, runVars>>

IdleRun ==
    /\ run = "idle" /\ current_turn = 0 /\ response_text = <<>>
    /\ pending_call = <<>> /\ final_output = <<>> /\ emitted = <<>>
    /\ consumed = 0 /\ yielded = <<>> /\ deltas = 0 /\ tool_calls = <<>>

(* Nothing has been attempted before the entry point is called, and the   *)
(* single-turn specifications have no concurrent turns                     *)
NothingAttempted ==
    /\ connect_attempts = 0 /\ discoveries = 0 /\ tool_result = "none"
    /\ model_attempts = 0
    /\ turns = <<>> /\ connections = <<>>
    /\ in_flight = 0 /\ taken = 0 /\ close_attempts = 0

PromptInit ==
    /\ \E n \in 0..MaxStored : \E tiePos \in TiePositions(n) \cup {0} :
          store = StoreOf(n, tiePos)
    /\ user_id \in Users
    /\ message \in Messages
    /\ mode \in Modes
    /\ api_key = TRUE
    /\ conversation_history = <<>>
    /\ full_input = <<>>
    /\ pc = "caller"
    /\ mcp_server = None /\ conn = "unopened" /\ exc = "none" /\ result = <<>>
    /\ IdleRun
    /\ NothingAttempted

----------------------------------------------------------------------------
(* create_agent, src/src/agent/runner.py lines 32-107 *)

(* line 60: no OPENAI_API_KEY, ValueError before the connection is made *)
CreateAgent_NoApiKey ==
    /\ pc = "start" /\ ~api_key
    /\ exc' = "ValueError"
    /\ pc' = "finally"
    /\ UNCHANGED <<promptVars, inputVars, envVars, concVars, flowVars, mcp_server, conn, result, runVars>>

(* line 98: await mcp_server.__aenter__() is called once and raises: the   *)
(* tool server is unreachable, nothing was opened, and the exception       *)
(* leaves create_agent                                                     *)
CreateAgent_EnterFails ==
    /\ pc = "start" /\ api_key
    /\ connect_attempts' = connect_attempts + 1
    /\ exc' = "ConnectionError"
    /\ pc' = "finally"
    /\ UNCHANGED <<promptVars, inputVars, concVars, flowVars, mcp_server, conn, result, runVars,
                   discoveries, tool_result, model_attempts>>

(* The connection entered without the check of lines 55-63 before it *)
CreateAgent_Enter_BeforeKeyCheck ==
    /\ pc = "start"
    /\ connect_attempts' = connect_attempts + 1
    /\ conn' = "open"
    /\ pc' = "entered"
    /\ UNCHANGED <<promptVars, inputVars, concVars, flowVars, mcp_server, exc, result, runVars,
                   discoveries, tool_result, model_attempts>>

(* line 98: the connection is entered, after the api key was found *)
CreateAgent_Enter ==
    /\ pc = "start" /\ api_key
    /\ connect_attempts' = connect_attempts + 1
    /\ conn' = "open"
    /\ pc' = "entered"
    /\ UNCHANGED <<promptVars, inputVars, concVars, flowVars, mcp_server, exc, result, runVars,
                   discoveries, tool_result, model_attempts>>

(* lines 101-105: Agent(...) or get_system_prompt() raises; the server     *)
(* object is a local of create_agent and is lost to the caller             *)
CreateAgent_AgentRaises ==
    /\ pc = "entered"
    /\ exc' = "Exception"
    /\ pc' = "finally"
    /\ UNCHANGED <<promptVars, inputVars, envVars, concVars, flowVars, mcp_server, conn, result, runVars>>

(* line 107 and lines 141 / 214: agent, mcp_server, run_config = ... *)
CreateAgent_Return ==
    /\ pc = "entered"
    /\ mcp_server' = "server"
    /\ pc' = "created"
    /\ UNCHANGED <<promptVars, inputVars, envVars, concVars, flowVars, conn, exc, result, runVars>>

----------------------------------------------------------------------------
(* The entry point from the caller's history to the built input, when      *)
(* create_agent succeeds                                                   *)

PromptNext ==
    \/ CallerLoadsHistory
    \/ CallerPassesAll
    \/ CallerPassesNone
    \/ CreateAgent_Enter
    \/ CreateAgent_Return
    \/ FormatAndBuild

PromptSpec == PromptInit /\ [][PromptNext]_vars

----------------------------------------------------------------------------
(* The agent run: Runner.run(agent, full_input, run_config=run_config,     *)
(* context={"user_id": user_id}) at lines 159-164 and Runner.run_streamed  *)
(* at lines 232-237. The run asks the model, dispatches the tool call the  *)
(* response requests to the MCP server with the arguments the model gave,  *)
(* and asks again, for at most DEFAULT_MAX_TURNS model requests.           *)

Streamed == mode = "run_agent_streamed"

(* A tool call as the model requests it. The model reads the user id from  *)
(* the prompt text and may echo it, echo another one, or leave it out.     *)
Calls ==
    [ name : {"add_task"},
      arguments : [user_id : Users \cup {None}, title : {"milk"}] ]

(* The calls the model may request next *)
NextCalls ==
    IF Len(tool_calls) < MaxFreeCalls THEN Calls
    ELSE {tool_calls[Len(tool_calls)]}

(* The k-th text delta of a turn *)
Chunk(k) == <<"t", ToString(k)>>

TextDeltaEvent(chunk) ==
    [type |-> "raw_response_event", kind |-> "ResponseTextDeltaEvent", payload |-> chunk]

ResponseCompletedEvent ==
    [type |-> "raw_response_event", kind |-> "ResponseCompletedEvent",
     payload |-> <<"response">>]

RunItemEvent(kind, payload) ==
    [type |-> "run_item_stream_event", kind |-> kind, payload |-> payload]

(* Only the streamed run has an event stream. *)
Emit(evs) == IF Streamed THEN emitted \o evs ELSE emitted

CanEmit == ~Streamed \/ Len(emitted) - consumed < MaxAhead

(* Runner.run is awaited inside run_agent; the streamed run is a task of   *)
(* its own.                                                                *)
RunScheduled == Streamed \/ pc = "running"

(* The request the tool server receives for a call: name and arguments as  *)
(* the model produced them. context={"user_id": ...} is not part of it.    *)
ToolRequest(call, context_user_id) ==
    [name |-> call.name, arguments |-> call.arguments]

(* A server object that keeps no tool list *)
CacheToolsList_Off == FALSE

(* line 94: cache_tools_list=True *)
CACHE_TOOLS_LIST == TRUE

(* The run asks the server object for its tools before each model request; *)
(* the object sends a list-tools request unless it caches and has a list.  *)
ListTools(sent) == IF CACHE_TOOLS_LIST /\ sent > 0 THEN sent ELSE sent + 1

(* A client that counts the first attempt among its retries *)
MaxRetries_AsAttempts == 2 + 1

(* lines 70-72: AsyncOpenAI(api_key=api_key), max_retries left at the      *)
(* client's default                                                        *)
OPENAI_MAX_RETRIES == 2

(* What a tool call gives back: its output, or a failure it reports *)
ToolOutcomes == {"ok", "error"}

(* How a run ends in an exception *)
RunErrors == {"error", "max_turns_exceeded"}

(* The exception the entry point sees for it *)
ExceptionOf(r) == IF r = "max_turns_exceeded" THEN "MaxTurnsExceeded" ELSE "Exception"

(* The model streams one more text delta of its response: the request is *)
(* answered, no attempt of it is in flight any more.                       *)
ModelDelta ==
    /\ run = "awaiting_model" /\ RunScheduled /\ CanEmit
    /\ deltas < MaxDeltas
    /\ deltas' = deltas + 1
    /\ response_text' = response_text \o Chunk(deltas + 1)
    /\ emitted' = Emit(<<TextDeltaEvent(Chunk(deltas + 1))>>)
    /\ model_attempts' = 0
    /\ UNCHANGED <<connect_attempts, discoveries, tool_result>>
    /\ UNCHANGED <<promptVars, inputVars, concVars, flowVars, callVars, run, current_turn, pending_call,
                   final_output, consumed, yielded, tool_calls>>

(* The response ends with a tool call. *)
ModelRequestsTool ==
    /\ run = "awaiting_model" /\ RunScheduled /\ CanEmit
    /\ \E call \in NextCalls : pending_call' = <<call>>
    /\ emitted' = Emit(<<ResponseCompletedEvent>>)
    /\ run' = "tool_dispatch"
    /\ model_attempts' = 0
    /\ UNCHANGED <<connect_attempts, discoveries, tool_result>>
    /\ UNCHANGED <<promptVars, inputVars, concVars, flowVars, callVars, current_turn, response_text,
                   final_output, consumed, yielded, deltas, tool_calls>>

(* The response ends without a tool call: it is the final output. *)
ModelFinal ==
    /\ run = "awaiting_model" /\ RunScheduled /\ CanEmit
    /\ final_output' = response_text
    /\ emitted' = Emit(<<ResponseCompletedEvent>>)
    /\ run' = "complete"
    /\ model_attempts' = 0
    /\ UNCHANGED <<connect_attempts, discoveries, tool_result>>
    /\ UNCHANGED <<promptVars, inputVars, concVars, flowVars, callVars, current_turn, response_text,
                   pending_call, consumed, yielded, deltas, tool_calls>>

(* An attempt of the model request fails before a response began and the  *)
(* client sends the request again.                                         *)
ModelAttemptRetried ==
    /\ run = "awaiting_model" /\ RunScheduled
    /\ response_text = <<>>
    /\ model_attempts < OPENAI_MAX_RETRIES
    /\ model_attempts' = model_attempts + 1
    /\ UNCHANGED <<promptVars, inputVars, concVars, flowVars, callVars, runVars,
                   connect_attempts, discoveries, tool_result>>

(* The model request fails for good: the client is out of retries, the    *)
(* error is not one it retries, or the response broke off. The error       *)
(* leaves the run.                                                         *)
ModelFails ==
    /\ run = "awaiting_model" /\ RunScheduled
    /\ run' = "error"
    /\ UNCHANGED <<promptVars, inputVars, envVars, concVars, flowVars, callVars, current_turn, response_text,
                   pending_call, final_output, emitted, consumed, yielded, deltas,
                   tool_calls>>

(* The requested call is sent to the tool server, which executes it; the   *)
(* result goes back to the model with the next request, unless the run is  *)
(* out of turns (MaxTurnsExceeded).                                        *)
DispatchTool ==
    /\ run = "tool_dispatch" /\ RunScheduled /\ CanEmit
    /\ conn = "open"
    /\ tool_calls' = Append(tool_calls, ToolRequest(pending_call[1], user_id))
    /\ \E outcome \in ToolOutcomes : tool_result' = outcome
    /\ emitted' = Emit(<<RunItemEvent("tool_called", <<pending_call[1].name>>),
                          RunItemEvent("tool_output", <<"output">>)>>)
    /\ pending_call' = <<>>
    /\ response_text' = <<>>
    /\ IF current_turn < DEFAULT_MAX_TURNS
          THEN /\ run' = "awaiting_model"
               /\ current_turn' = current_turn + 1
               /\ discoveries' = ListTools(discoveries)
               /\ model_attempts' = 0
          ELSE /\ run' = "max_turns_exceeded"
               /\ UNCHANGED <<current_turn, discoveries, model_attempts>>
    /\ UNCHANGED <<promptVars, inputVars, concVars, flowVars, callVars, final_output, consumed, yielded,
                   deltas, connect_attempts>>

(* The call cannot be sent: the connection is already closed. *)
DispatchFails ==
    /\ run = "tool_dispatch" /\ RunScheduled
    /\ conn # "open"
    /\ pending_call' = <<>>
    /\ run' = "error"
    /\ UNCHANGED <<promptVars, inputVars, envVars, concVars, flowVars, callVars, current_turn, response_text,
                   final_output, emitted, consumed, yielded, deltas, tool_calls>>

----------------------------------------------------------------------------
(* run_agent, lines 156-176, and run_agent_streamed, lines 230-256 *)

APOLOGY == <<"I'm sorry, I processed your request but didn't generate a response. How else can I help?">>

RECURSIVE Concat(_)
Concat(chunks) ==
    IF chunks = <<>> THEN <<>> ELSE Head(chunks) \o Concat(Tail(chunks))

(* The final output returned as it is *)
RunAgentReturn_Unchecked(output) == output

(* lines 166-173 *)
RunAgentReturn(output) == IF output = <<>> THEN APOLOGY ELSE output

Yields_AnyRawResponse(event) ==
    IF event.type = "raw_response_event" THEN <<event.payload>> ELSE <<>>

(* lines 246-254: what the loop body yields for one event *)
Yields(event) ==
    IF event.type = "raw_response_event"
       THEN IF event.kind = "ResponseTextDeltaEvent" THEN <<event.payload>> ELSE <<>>
       ELSE <<>>

(* lines 159-164 and 232-237: the run starts *)
StartRun ==
    /\ pc = "ready"
    /\ run' = "awaiting_model"
    /\ current_turn' = 1
    /\ discoveries' = ListTools(discoveries)
    /\ pc' = IF Streamed THEN "iterating" ELSE "running"
    /\ UNCHANGED <<connect_attempts, tool_result, model_attempts>>
    /\ UNCHANGED <<promptVars, inputVars, concVars, flowVars, mcp_server, conn, exc, result, response_text,
                   pending_call, final_output, emitted, consumed, yielded, deltas,
                   tool_calls>>

(* lines 166-173: Runner.run returned *)
RunAgent_Return ==
    /\ pc = "running" /\ run = "complete"
    /\ result' = RunAgentReturn(final_output)
    /\ pc' = "finally"
    /\ UNCHANGED <<promptVars, inputVars, envVars, concVars, flowVars, mcp_server, conn, exc, runVars>>

(* lines 174-176: Runner.run raised; logged and raised again *)
RunAgent_Raise ==
    /\ pc = "running" /\ run \in RunErrors
    /\ exc' = ExceptionOf(run)
    /\ pc' = "finally"
    /\ UNCHANGED <<promptVars, inputVars, envVars, concVars, flowVars, mcp_server, conn, result, runVars>>

(* The caller cancels the task that awaits Runner.run: the run is          *)
(* cancelled with it.                                                      *)
RunAgent_Cancelled ==
    /\ pc = "running" /\ run \in {"awaiting_model", "tool_dispatch"}
    /\ run' = "cancelled"
    /\ exc' = "CancelledError"
    /\ pc' = "finally"
    /\ UNCHANGED <<promptVars, inputVars, envVars, concVars, flowVars, mcp_server, conn, result, current_turn,
                   response_text, pending_call, final_output, emitted, consumed,
                   yielded, deltas, tool_calls>>

(* lines 242-254: stream_events() delivers the next event; a text delta    *)
(* is yielded and the generator is suspended until the caller asks again   *)
(* A loop that takes the next event while the caller still holds the     *)
(* chunk of the last yield                                                 *)
Streamed_NextEvent_Eager ==
    /\ pc \in {"iterating", "suspended"} /\ consumed < Len(emitted)
    /\ consumed' = consumed + 1
    /\ LET chunks == Yields(emitted[consumed + 1])
       IN  /\ yielded' = yielded \o chunks
           /\ pc' = IF chunks # <<>> THEN "suspended" ELSE pc
    /\ UNCHANGED <<promptVars, inputVars, envVars, concVars, flowVars, mcp_server, conn, exc, result, run,
                   current_turn, response_text, pending_call, final_output, emitted,
                   deltas, tool_calls>>

(* lines 242-254: one pass of the async for loop: the generator takes the  *)
(* next event only while it runs, and a yield suspends it                  *)
Streamed_NextEvent ==
    /\ pc = "iterating" /\ consumed < Len(emitted)
    /\ consumed' = consumed + 1
    /\ LET chunks == Yields(emitted[consumed + 1])
       IN  /\ yielded' = yielded \o chunks
           /\ pc' = IF chunks # <<>> THEN "suspended" ELSE "iterating"
    /\ UNCHANGED <<promptVars, inputVars, envVars, concVars, flowVars, mcp_server, conn, exc, result, run,
                   current_turn, response_text, pending_call, final_output, emitted,
                   deltas, tool_calls>>

(* The caller has taken the chunk and asks for the next one. *)
Streamed_Resume ==
    /\ pc = "suspended"
    /\ taken' = Len(yielded)
    /\ pc' = "iterating"
    /\ UNCHANGED <<promptVars, inputVars, envVars, concVars, in_flight, close_attempts,
                   mcp_server, conn, exc, result, runVars>>

(* line 256: the event stream ended *)
Streamed_End ==
    /\ pc = "iterating" /\ run = "complete" /\ consumed = Len(emitted)
    /\ pc' = "finally"
    /\ UNCHANGED <<promptVars, inputVars, envVars, concVars, flowVars, mcp_server, conn, exc, result, runVars>>

(* stream_events() raises the error of the run *)
Streamed_Raise ==
    /\ pc = "iterating" /\ run \in RunErrors
    /\ exc' = ExceptionOf(run)
    /\ pc' = "finally"
    /\ UNCHANGED <<promptVars, inputVars, envVars, concVars, flowVars, mcp_server, conn, result, runVars>>

(* The caller stops consuming: the generator is closed at its yield        *)
(* (GeneratorExit) or the consuming task is cancelled while it waits for   *)
(* an event. Nothing in lines 211-264 cancels the run.                     *)
Streamed_Abandoned ==
    /\ \/ pc = "suspended" /\ exc' = "GeneratorExit"
       \/ pc = "iterating" /\ exc' = "CancelledError"
    /\ pc' = "finally"
    /\ UNCHANGED <<promptVars, inputVars, envVars, concVars, flowVars, mcp_server, conn, result, runVars>>

(* The agents library ends the run task of a stream nobody reads when it   *)
(* finalizes the event iterator, at a time of its choosing.                *)
Streamed_RunCleanedUp ==
    /\ Streamed /\ pc \in {"finally", "done", "persisted"}
    /\ run \in {"awaiting_model", "tool_dispatch"}
    /\ run' = "cancelled"
    /\ UNCHANGED <<promptVars, inputVars, envVars, concVars, flowVars, callVars, current_turn, response_text,
                   pending_call, final_output, emitted, consumed, yielded, deltas,
                   tool_calls>>

(* How __aexit__() leaves the connection: closed, or the close raised *)
CloseOutcomes == {"closed", "close_failed"}

(* A row a turn adds to the conversation store *)
TurnRow(k, role, content) ==
    [ id |-> k, conversation_id |-> "c1", role |-> role, content |-> content,
      created_at |-> k ]

(* The store after a completed turn: the user message and the answer *)
TurnRows(rows, user_message, answer) ==
    rows \o << TurnRow(Len(rows) + 1, MessageRole.user, user_message),
               TurnRow(Len(rows) + 2, MessageRole.assistant, answer) >>

(* A finally block that saves what was streamed so far *)
Finally_PersistsPartial ==
    /\ pc = "finally"
    /\ IF mcp_server # None
          THEN /\ close_attempts' = close_attempts + 1
               /\ conn' \in CloseOutcomes
          ELSE UNCHANGED <<conn, close_attempts>>
    /\ store' = IF Streamed /\ yielded # <<>>
                   THEN Append(store, TurnRow(Len(store) + 1, MessageRole.assistant,
                                              Concat(yielded)))
                   ELSE store
    /\ pc' = "done"
    /\ UNCHANGED <<conversation_history, full_input, inputVars, envVars, concVars,
                   in_flight, taken, mcp_server, exc, result, runVars>>

(* lines 178-184 and 258-264: the finally block. If the entry point holds *)
(* a server object it calls __aexit__() once; an Exception of the close    *)
(* is printed or passed over, and what the try block returned or raised    *)
(* stands. Neither entry point has a session: nothing is written.          *)
Finally ==
    /\ pc = "finally"
    /\ IF mcp_server # None
          THEN /\ close_attempts' = close_attempts + 1
               /\ conn' \in CloseOutcomes
          ELSE UNCHANGED <<conn, close_attempts>>
    /\ pc' = "done"
    /\ UNCHANGED <<promptVars, inputVars, envVars, concVars, in_flight, taken,
                   mcp_server, exc, result, runVars>>

(* The caller of the entry point appends a completed turn to the           *)
(* conversation store: the user message and the answer it received.        *)
PersistTurn ==
    /\ pc = "done" /\ exc = "none"
    /\ store' = TurnRows(store, message,
                          IF Streamed THEN Concat(yielded) ELSE result)
    /\ pc' = "persisted"
    /\ UNCHANGED <<conversation_history, full_input, inputVars, envVars, concVars, flowVars,
                   mcp_server, conn, exc, result, runVars>>

----------------------------------------------------------------------------
(* One turn *)

(* The store at the end of the last completed turn *)
InitialStore == StoreOf(2, 0)

Init ==
    /\ store = InitialStore
    /\ user_id = "u1"
    /\ message = <<"hello">>
    /\ mode \in Modes
    /\ api_key \in BOOLEAN
    /\ conversation_history = Where(store, "c1")
    /\ full_input = <<>>
    /\ pc = "start"
    /\ mcp_server = None /\ conn = "unopened" /\ exc = "none" /\ result = <<>>
    /\ IdleRun
    /\ NothingAttempted

Next ==
    \/ CreateAgent_NoApiKey
    \/ CreateAgent_EnterFails
    \/ CreateAgent_Enter
    \/ CreateAgent_AgentRaises
    \/ CreateAgent_Return
    \/ FormatAndBuild
    \/ StartRun
    \/ ModelDelta
    \/ ModelRequestsTool
    \/ ModelFinal
    \/ ModelAttemptRetried
    \/ ModelFails
    \/ DispatchTool
    \/ DispatchFails
    \/ RunAgent_Return
    \/ RunAgent_Raise
    \/ RunAgent_Cancelled
    \/ Streamed_NextEvent
    \/ Streamed_Resume
    \/ Streamed_End
    \/ Streamed_Raise
    \/ Streamed_Abandoned
    \/ Streamed_RunCleanedUp
    \/ Finally
    \/ PersistTurn

Spec == Init /\ [][Next]_vars

----------------------------------------------------------------------------
(* Concurrent turns: two calls of an entry point on one event loop, and a  *)
(* separate create_agent() call as in src/test_agent.py. Each step is the  *)
(* code of one call between two awaits.                                    *)

Tasks == {"turn1", "turn2"}

singleVars == <<promptVars, inputVars, callVars, runVars, envVars, flowVars>>

(* A module-level server object handed to every caller *)
ServerFor_Shared(conns) == 1

(* lines 88-95: create_agent constructs a new MCPServerStreamableHttp on   *)
(* every call; the object is identified by its place in connections        *)
ServerFor(conns) == Len(conns) + 1

(* line 98: __aenter__() on the object create_agent holds *)
Entered(conns, server, task) ==
    IF server > Len(conns)
       THEN Append(conns, [opened_by |-> task, state |-> "open"])
       ELSE [conns EXCEPT ![server].state = "open"]

(* lines 135-137: the locals of a call *)
TurnLocals(uid) ==
    [user_id |-> uid, pc |-> "start", mcp_server |-> 0, tagged |-> None, used |-> {}]

ConcurrentInit ==
    /\ store = InitialStore
    /\ user_id = "u1"
    /\ message = <<"hello">>
    /\ mode = "run_agent"
    /\ api_key = TRUE
    /\ conversation_history = <<>>
    /\ full_input = <<>>
    /\ pc = "start"
    /\ mcp_server = None /\ conn = "unopened" /\ exc = "none" /\ result = <<>>
    /\ IdleRun
    /\ connect_attempts = 0 /\ discoveries = 0 /\ tool_result = "none"
    /\ model_attempts = 0
    /\ in_flight = 0 /\ taken = 0 /\ close_attempts = 0
    /\ \E u1 \in Users, u2 \in Users :
          turns = [t \in Tasks |-> TurnLocals(IF t = "turn1" THEN u1 ELSE u2)]
    /\ connections = <<>>

(* src/test_agent.py: create_agent() called on its own; what it returns    *)
(* is not passed to run_agent and is never closed                          *)
Separate_CreateAgent ==
    /\ \A i \in 1..Len(connections) : connections[i].opened_by # "separate"
    /\ connections' = Entered(connections, ServerFor(connections), "separate")
    /\ UNCHANGED <<singleVars, turns>>

(* line 141 / 214 with lines 88-98 and 107: the call gets its agent and    *)
(* its server object                                                       *)
Turn_CreateAgent(t) ==
    /\ turns[t].pc = "start"
    /\ LET server == ServerFor(connections)
       IN  /\ connections' = Entered(connections, server, t)
           /\ turns' = [turns EXCEPT ![t].mcp_server = server, ![t].pc = "created"]
    /\ UNCHANGED singleVars

(* line 98 raises: the call has no server object *)
Turn_CreateAgentFails(t) ==
    /\ turns[t].pc = "start"
    /\ turns' = [turns EXCEPT ![t].pc = "finally"]
    /\ UNCHANGED <<singleVars, connections>>

(* lines 143-154 / 217-228: the input is built from the arguments of the   *)
(* call                                                                    *)
Turn_BuildInput(t) ==
    /\ turns[t].pc = "created"
    /\ turns' = [turns EXCEPT ![t].tagged = turns[t].user_id, ![t].pc = "running"]
    /\ UNCHANGED <<singleVars, connections>>

(* lines 159-164 / 232-237: the run of the call dispatches a tool call     *)
(* over the server object of its agent                                     *)
Turn_ToolCall(t) ==
    /\ turns[t].pc = "running"
    /\ connections[turns[t].mcp_server].state = "open"
    /\ turns[t].mcp_server \notin turns[t].used
    /\ turns' = [turns EXCEPT ![t].used = @ \cup {turns[t].mcp_server}]
    /\ UNCHANGED <<singleVars, connections>>

(* the run ends, in an answer or an exception *)
Turn_RunEnds(t) ==
    /\ turns[t].pc = "running"
    /\ turns' = [turns EXCEPT ![t].pc = "finally"]
    /\ UNCHANGED <<singleVars, connections>>

(* lines 178-184 / 258-264: the call closes the server object it holds *)
Turn_Finally(t) ==
    /\ turns[t].pc = "finally"
    /\ connections' = IF turns[t].mcp_server # 0
                         THEN [connections EXCEPT ![turns[t].mcp_server].state = "closed"]
                         ELSE connections
    /\ turns' = [turns EXCEPT ![t].pc = "done"]
    /\ UNCHANGED singleVars

ConcurrentNext ==
    \/ Separate_CreateAgent
    \/ \E t \in Tasks :
          \/ Turn_CreateAgent(t)
          \/ Turn_CreateAgentFails(t)
          \/ Turn_BuildInput(t)
          \/ Turn_ToolCall(t)
          \/ Turn_RunEnds(t)
          \/ Turn_Finally(t)

ConcurrentSpec == ConcurrentInit /\ [][ConcurrentNext]_vars

----------------------------------------------------------------------------
(* Tool calls of one response. Runner.run / Runner.run_streamed (lines     *)
(* 159-164 and 232-237) are called with the default model settings, so a   *)
(* model response may request several tool calls; the run starts the       *)
(* calls of a response together (asyncio.gather) and asks the model again  *)
(* when all of them have returned. Spec keeps to responses with one call;  *)
(* here a response has up to MaxCallsPerResponse, and the run is followed  *)
(* under run_agent: Runner.run_streamed runs the same loop.                *)

(* The tool calls a response may request *)
Batches(calls) == UNION { [1..n -> calls] : n \in 1..MaxCallsPerResponse }

(* The response ends with tool calls. *)
Gather_ModelRequestsTools ==
    /\ run = "awaiting_model" /\ RunScheduled /\ CanEmit
    /\ \E batch \in Batches(NextCalls) : pending_call' = batch
    /\ emitted' = Emit(<<ResponseCompletedEvent>>)
    /\ run' = "tool_dispatch"
    /\ model_attempts' = 0
    /\ UNCHANGED <<connect_attempts, discoveries, tool_result>>
    /\ UNCHANGED <<promptVars, inputVars, concVars, flowVars, callVars, current_turn,
                   response_text, final_output, consumed, yielded, deltas, tool_calls>>

(* The task of one requested call sends its request; the tasks of the      *)
(* other calls of the response do not wait for its answer.                 *)
Gather_CallStarts ==
    /\ run = "tool_dispatch" /\ RunScheduled /\ CanEmit
    /\ pending_call # <<>>
    /\ conn = "open"
    /\ tool_calls' = Append(tool_calls, ToolRequest(Head(pending_call), user_id))
    /\ pending_call' = Tail(pending_call)
    /\ in_flight' = in_flight + 1
    /\ emitted' = Emit(<<RunItemEvent("tool_called", <<Head(pending_call).name>>)>>)
    /\ UNCHANGED <<promptVars, inputVars, envVars, concVars, callVars, taken, close_attempts,
                   run, current_turn, response_text, final_output, consumed, yielded,
                   deltas>>

(* The tool server answers one of the calls in flight; after the last      *)
(* answer of the response the model is asked again, unless the run is out  *)
(* of turns.                                                               *)
Gather_CallReturns ==
    /\ run = "tool_dispatch" /\ RunScheduled /\ CanEmit
    /\ in_flight > 0
    /\ in_flight' = in_flight - 1
    /\ \E outcome \in ToolOutcomes : tool_result' = outcome
    /\ emitted' = Emit(<<RunItemEvent("tool_output", <<"output">>)>>)
    /\ IF pending_call = <<>> /\ in_flight = 1
          THEN IF current_turn < DEFAULT_MAX_TURNS
                  THEN /\ run' = "awaiting_model"
                       /\ current_turn' = current_turn + 1
                       /\ discoveries' = ListTools(discoveries)
                       /\ model_attempts' = 0
                  ELSE /\ run' = "max_turns_exceeded"
                       /\ UNCHANGED <<current_turn, discoveries, model_attempts>>
          ELSE UNCHANGED <<run, current_turn, discoveries, model_attempts>>
    /\ UNCHANGED <<promptVars, inputVars, concVars, callVars, taken, close_attempts,
                   connect_attempts, response_text, pending_call, final_output, consumed,
                   yielded, deltas, tool_calls>>

GatherInit == Init /\ api_key /\ ~Streamed

GatherNext ==
    \/ CreateAgent_Enter
    \/ CreateAgent_Return
    \/ FormatAndBuild
    \/ StartRun
    \/ ModelDelta
    \/ Gather_ModelRequestsTools
    \/ Gather_CallStarts
    \/ Gather_CallReturns
    \/ ModelFinal
    \/ RunAgent_Return
    \/ RunAgent_Raise
    \/ Finally

GatherSpec == GatherInit /\ [][GatherNext]_vars

----------------------------------------------------------------------------
(* Properties *)

TurnEnded == pc \in {"done", "persisted"}

Signature(request) == <<request.name, request.arguments>>

HistoryPart(input) == SubSeq(input, 1, Len(input) - 1)

(* C1: within a turn every tool-call signature is executed at most once,   *)
(* however often the model requests it: no two invocations received by     *)
(* the tool server carry the same (name, arguments).                       *)
C1_OneExecutionPerSignature ==
    \A i, j \in 1..Len(tool_calls) :
        i # j => Signature(tool_calls[i]) # Signature(tool_calls[j])

(* C2: the turn never stops short of its end, and the number of model      *)
(* requests and of tool dispatches in a turn never exceeds the iteration   *)
(* cap (8).                                                                *)
C2_EndsWithinIterationCap ==
    /\ TurnEnded \/ ENABLED Next
    /\ current_turn <= ITERATION_CAP
    /\ Len(tool_calls) <= ITERATION_CAP

(* C3: at the end of a turn, on every exit path, the connection opened     *)
(* for it is closed.                                                       *)
C3_ConnectionClosedAtEnd == TurnEnded => conn # "open"

(* C4: the history sent to the model has at most MAX_CONVERSATION_HISTORY  *)
(* messages, whatever list the caller passed, and when it is the full      *)
(* window of a longer conversation it holds the most recent messages.      *)
C4_HistoryWithinWindow ==
    pc = "ready" =>
        LET h == HistoryPart(full_input)
            stored == Range(Where(store, "c1"))
            included == {m \in stored : \E i \in 1..Len(h) : h[i].content = m.content}
        IN  /\ Len(h) <= MAX_CONVERSATION_HISTORY
            /\ Cardinality(stored) > MAX_CONVERSATION_HISTORY
                  /\ Len(h) = MAX_CONVERSATION_HISTORY
               => \A a \in included, b \in stored \ included :
                      b.created_at <= a.created_at

(* C5: every tool invocation carries the authenticated user id of the      *)
(* turn, whatever user id the model put in the arguments.                  *)
C5_ToolsGetAuthenticatedUser ==
    \A i \in 1..Len(tool_calls) : tool_calls[i].arguments.user_id = user_id

(* C6: the sequence built for the model is the system instruction, one     *)
(* entry per passed history message in the same order with its role and    *)
(* content, then the new user message; it has at most                      *)
(* MAX_CONVERSATION_HISTORY + 2 entries, and building it changes no        *)
(* stored message.                                                         *)
C6_ModelInputShape ==
    [][ (pc = "created" /\ pc' = "ready") =>
          LET input == ModelInput(full_input')
              n == Len(conversation_history)
          IN  /\ Len(input) = n + 2
              /\ input[1] = [role |-> "system", content |-> SystemPrompt]
              /\ \A i \in 1..n :
                    /\ input[i + 1].role = conversation_history[i].role
                    /\ input[i + 1].content = conversation_history[i].content
              /\ input[n + 2].role = "user"
              /\ Len(input) <= MAX_CONVERSATION_HISTORY + 2
              /\ store' = store
              /\ conversation_history' = conversation_history ]_vars

(* C7: in both entry points the new user message is the caller's message   *)
(* prefixed with the identity tag of the turn's user id, and the history   *)
(* messages keep their content.                                            *)
C7_OnlyNewMessageTagged ==
    pc = "ready" =>
        LET n == Len(full_input)
            new == full_input[n].content
        IN  /\ n = Len(conversation_history) + 1
            /\ Len(new) = Len(message) + 3
            /\ new[1] = "[User ID: " /\ new[2] = user_id /\ new[3] = "]\n"
            /\ \A k \in 1..Len(message) : new[k + 3] = message[k]
            /\ \A i \in 1..(n - 1) :
                  full_input[i].content = conversation_history[i].content

C7_Witness ==
    /\ pc = "ready"
    /\ mode = "run_agent_streamed"
    /\ user_id = "u1"
    /\ message = IdentityTag("u2") \o <<"hello">>
    /\ Len(full_input) > MAX_CONVERSATION_HISTORY

(* C8: run_agent_streamed yields exactly the payloads of the text-delta    *)
(* events delivered by the event stream, in their order, nothing for any   *)
(* other event, and it ends normally only when the stream has ended and    *)
(* every event was delivered.                                              *)
IsTextDelta(e) == e.type = "raw_response_event" /\ e.kind = "ResponseTextDeltaEvent"

C8_YieldsExactlyTextDeltas ==
    Streamed =>
        LET delivered == SubSeq(emitted, 1, consumed)
            text == SelectSeq(delivered, IsTextDelta)
        IN  /\ yielded = [i \in 1..Len(text) |-> text[i].payload]
            /\ (pc = "finally" \/ TurnEnded) /\ exc = "none"
               => run = "complete" /\ consumed = Len(emitted)

C8_Witness ==
    /\ Streamed /\ TurnEnded /\ exc = "none"
    /\ Len(yielded) = 2
    /\ Len(tool_calls) = 1
    /\ consumed > Len(yielded) + 2

(* C9: the concatenation of the chunks of a completed streamed turn is     *)
(* the string run_agent returns for the same model responses.              *)
C9_StreamEqualsAnswer ==
    Streamed /\ TurnEnded /\ exc = "none"
        => Concat(yielded) = RunAgentReturn(final_output)

(* C10: once the caller has stopped consuming the stream, no chunk is      *)
(* produced, the run makes no further model request or tool call (it is    *)
(* cancelled), and the turn ends with the connection closed.               *)
CallerGone == Streamed /\ exc \in {"GeneratorExit", "CancelledError"}

C10_StopsOnDisconnect ==
    [][ CallerGone =>
          /\ yielded' = yielded
          /\ run' \in {run, "cancelled"}
          /\ UNCHANGED <<current_turn, deltas, pending_call, tool_calls, emitted>>
          /\ TurnEnded' => conn' # "open" ]_vars

----------------------------------------------------------------------------
(* Error handling *)

(* What the caller is to receive for a failed turn, and the notice that    *)
(* ends a truncated answer                                                 *)
GenericFailureMessage == <<"generic failure message">>

TruncationNotice == "truncation notice"

(* The connection was attempted and never opened *)
ToolServerUnreachable == connect_attempts > 0 /\ conn = "unopened"

(* C11: when the tool server is unreachable for the whole turn, the turn   *)
(* ends after exactly two connection attempts, the caller receives the     *)
(* generic failure message instead of an exception, and no tool call was   *)
(* executed.                                                               *)
C11_TwoAttemptsThenGenericFailure ==
    TurnEnded /\ ToolServerUnreachable
        => /\ connect_attempts = 2
           /\ exc = "none"
           /\ ~Streamed => result = GenericFailureMessage
           /\ tool_calls = <<>>

(* C12: a model request that fails is sent again at most 2 times (3        *)
(* attempts in all); a retry leaves the turn waiting for the model, an     *)
(* attempt that is answered lets the turn go on, and when the attempts     *)
(* are used up a further failure ends the run in an error.                 *)
C12_ModelRetriedAtMostTwice ==
    [][ /\ model_attempts' <= 2
        /\ model_attempts' = model_attempts + 1
              => run' = "awaiting_model" /\ UNCHANGED <<current_turn, tool_calls>>
        /\ model_attempts > 0 /\ model_attempts' = 0
              => run' \in {"awaiting_model", "tool_dispatch", "complete"}
        /\ run = "awaiting_model" /\ run' # run /\ model_attempts' = 2
              => run' \in {"error", "cancelled"} ]_vars

C12_Witness ==
    /\ run = "error"
    /\ model_attempts = 2
    /\ current_turn = 2
    /\ Len(tool_calls) = 1

(* The turn ended in a failure its caller is there to see: the run ended   *)
(* in an exception, or create_agent did although the api key was set.      *)
TurnFailed ==
    /\ TurnEnded
    /\ ~(Streamed /\ exc \in {"GeneratorExit", "CancelledError"})
    /\ run \in RunErrors \/ (api_key /\ run = "idle")

(* C13: when a turn fails, its caller receives the generic failure         *)
(* message and never the exception.                                        *)
C13_FailedGivesGenericMessage ==
    TurnFailed
        => /\ exc = "none"
           /\ IF Streamed
                 THEN yielded # <<>> /\ yielded[Len(yielded)] = GenericFailureMessage
                 ELSE result = GenericFailureMessage

(* C14: when the run is out of turns, the turn does not fail: no           *)
(* exception reaches the caller, and the answer of run_agent is text       *)
(* that ends with the truncation notice.                                   *)
C14_CapExceededIsTruncatedAnswer ==
    TurnEnded /\ run = "max_turns_exceeded"
              /\ ~(Streamed /\ exc \in {"GeneratorExit", "CancelledError"})
        => /\ exc = "none"
           /\ ~Streamed => result # <<>> /\ result[Len(result)] = TruncationNotice

(* C15: whenever a tool is executed and reports a failure, the failure     *)
(* goes back to the model as the tool result and the model is asked        *)
(* again: the run does not end in an error.                                *)
C15_ToolFailureFedBack ==
    [][ run = "tool_dispatch" /\ Len(tool_calls') = Len(tool_calls) + 1
                              /\ tool_result' = "error"
          => /\ run' = "awaiting_model"
             /\ current_turn' = current_turn + 1 ]_vars

(* C16: without OPENAI_API_KEY nothing of the turn is started: no          *)
(* connection attempt, no list-tools request, no model request, no tool    *)
(* call; and the only thing the turn does is raise the ValueError to its   *)
(* caller.                                                                 *)
C16_ConfigErrorBeforeAnyWork ==
    ~api_key
        => /\ conn = "unopened" /\ connect_attempts = 0 /\ mcp_server = None
           /\ run = "idle" /\ current_turn = 0 /\ discoveries = 0
           /\ tool_calls = <<>>
           /\ pc # "start" => exc = "ValueError"
           /\ result = <<>> /\ yielded = <<>>

C16_Witness == ~api_key /\ TurnEnded /\ exc = "ValueError" /\ conn = "unopened"

----------------------------------------------------------------------------
(* Order of the loaded history, frame of a cancelled stream, and tool    *)
(* discovery                                                               *)

(* C17: the list load_conversation_history returned is ordered by          *)
(* creation time, oldest first and never decreasing, for every store and   *)
(* limit, also when two messages have the same creation time.              *)
C17_HistoryOldestFirst ==
    pc # "caller" =>
        \A i \in 1..(Len(conversation_history) - 1) :
            conversation_history[i].created_at <= conversation_history[i + 1].created_at

C17_Witness ==
    /\ pc = "start"
    /\ Len(conversation_history) = DEFAULT_LIMIT
    /\ Len(Where(store, "c1")) > DEFAULT_LIMIT
    /\ \E i \in 1..(DEFAULT_LIMIT - 1) :
          conversation_history[i].created_at = conversation_history[i + 1].created_at

OpenedBy(t) == {i \in 1..Len(connections) : connections[i].opened_by = t}

C20_DiscoveryOncePerConnection ==
    /\ discoveries <= 1
    /\ current_turn >= 1 => discoveries = 1
    /\ connect_attempts <= 1

C20_Witness ==
    /\ discoveries = 1
    /\ current_turn >= 3
    /\ Len(tool_calls) >= 2
    /\ conn = "open"

----------------------------------------------------------------------------
(* Sequencing inside a turn *)

(* C21: within a turn at most one tool invocation is in flight at any      *)
(* time, also when one model response requests several tool calls, and     *)
(* none is in flight while the model is asked.                             *)
C21_OneToolInvocationAtATime ==
    /\ in_flight <= 1
    /\ in_flight > 0 => run = "tool_dispatch"

(* C22: run_agent_streamed never has more than one chunk that it yielded   *)
(* and its caller has not taken, and it takes no further event of the run  *)
(* and yields no further chunk while there is one.                         *)
C22_OneChunkOutstanding ==
    [][ /\ Len(yielded') - taken' <= 1
        /\ consumed' # consumed => Len(yielded) = taken
        /\ yielded' # yielded => Len(yielded) = taken ]_vars

C22_Witness ==
    /\ Streamed /\ pc = "suspended"
    /\ Len(yielded) = 2 /\ taken = 1
    /\ consumed < Len(emitted)
    /\ run = "tool_dispatch"

----------------------------------------------------------------------------
(* The answer of run_agent and the teardown *)

(* C23: what run_agent returns is never empty: it is the apology when the  *)
(* final output of the completed run is empty or None, and the final       *)
(* output unchanged otherwise.                                             *)
C23_AnswerNeverEmpty ==
    ~Streamed /\ exc = "none" /\ (pc = "finally" \/ TurnEnded)
        => /\ run = "complete"
           /\ result # <<>>
           /\ final_output = <<>> => result = APOLOGY
           /\ final_output # <<>> => result = final_output

C23_Witness ==
    /\ ~Streamed /\ TurnEnded /\ exc = "none"
    /\ final_output = <<>>
    /\ result = APOLOGY
    /\ Len(tool_calls) = 1

(* C24: the teardown leaves the outcome of the turn as it was, whether     *)
(* the close succeeds or raises: the answer or the chunks delivered and    *)
(* the exception in flight are unchanged; and the close is attempted once  *)
(* if a connection was opened for the turn and not at all otherwise.       *)
C24_TeardownKeepsOutcome ==
    [][ pc = "finally" /\ pc' = "done"
          => /\ exc' = exc /\ result' = result /\ yielded' = yielded
             /\ close_attempts = 0
             /\ close_attempts' = IF conn = "open" THEN 1 ELSE 0 ]_vars

====
